---- MODULE Spec2Model ----
(***************************************************************************)
(* The Mundt nodal room-air model of EnergyPlus (MundtSimMgr.cc) as a      *)
(* state machine.  One action, ManageMundtModel, is one call of the        *)
(* manager for one zone: the one-time InitMundtModel on the first call,    *)
(* the inbound transfer, the gate, SetupMundtModel, CalcMundtModel and the *)
(* outbound transfer.  The building (zones, surfaces, air-node list) is    *)
(* chosen in Init; the host's per-timestep values are chosen per call.     *)
(***************************************************************************)
EXTENDS Integers, Sequences, FiniteSets, TLC

-----------------------------------------------------------------------------
(* Real64.  A value is an exact fraction <<n, d>> in lowest terms, d >= 0.  *)
(* d = 0 carries the IEEE results of a division by zero: <<1,0>> is +inf,   *)
(* <<-1,0>> is -inf and <<0,0>> is NaN (every comparison with it is false). *)

Abs(x) == IF x < 0 THEN -x ELSE x

Sgn(x) == IF x > 0 THEN 1 ELSE IF x < 0 THEN -1 ELSE 0

RECURSIVE GCD(_, _)
GCD(a, b) == IF b = 0 THEN a ELSE GCD(b, a % b)

Gcd1(a, b) == LET g == GCD(a, b) IN IF g = 0 THEN 1 ELSE g

R(n, d) ==
    IF d = 0 THEN <<Sgn(n), 0>>
    ELSE LET g == Gcd1(Abs(n), Abs(d))
         IN  <<Sgn(d) * (n \div g), Abs(d) \div g>>

Num(x) == <<x, 1>>

NaN == <<0, 0>>

IsFinite(a) == a[2] # 0

Rank(a) == IF a[2] = 0 THEN a[1] ELSE 0

RNeg(a) == <<-a[1], a[2]>>

RAdd(a, b) ==
    IF a[2] = 0 /\ b[2] = 0 THEN (IF a[1] = b[1] THEN a ELSE NaN)
    ELSE IF a[2] = 0 THEN a
    ELSE IF b[2] = 0 THEN b
    ELSE LET g == GCD(a[2], b[2])
         IN  R(a[1] * (b[2] \div g) + b[1] * (a[2] \div g), (a[2] \div g) * b[2])

RSub(a, b) == RAdd(a, RNeg(b))

RMul(a, b) ==
    LET g1 == Gcd1(Abs(a[1]), b[2])
        g2 == Gcd1(Abs(b[1]), a[2])
    IN  R((a[1] \div g1) * (b[1] \div g2), (a[2] \div g2) * (b[2] \div g1))

RInv(a) ==
    IF a[1] = 0 THEN (IF a[2] = 0 THEN NaN ELSE <<1, 0>>)
    ELSE <<Sgn(a[1]) * a[2], Abs(a[1])>>

RDiv(a, b) == RMul(a, RInv(b))

RLt(a, b) ==
    /\ a # NaN
    /\ b # NaN
    /\ IF a[2] = 0 \/ b[2] = 0 THEN Rank(a) < Rank(b)
       ELSE LET g == GCD(a[2], b[2])
            IN  a[1] * (b[2] \div g) < b[1] * (a[2] \div g)

RLe(a, b) ==
    /\ a # NaN
    /\ b # NaN
    /\ IF a[2] = 0 \/ b[2] = 0 THEN Rank(a) <= Rank(b)
       ELSE LET g == GCD(a[2], b[2])
            IN  a[1] * (b[2] \div g) <= b[1] * (a[2] \div g)

RGt(a, b) == RLt(b, a)

RGe(a, b) == RLe(b, a)

RECURSIVE RSum(_, _)
RSum(f, S) ==
    IF S = {} THEN Num(0)
    ELSE LET x == CHOOSE y \in S : \A z \in S : y <= z
         IN  RAdd(f[x], RSum(f, S \ {x}))

Max2(a, b) == IF a >= b THEN a ELSE b

\* pack( ID1dSurf, mask ): the ids whose mask bit is set, in increasing order
RECURSIVE Pack(_)
Pack(mask) ==
    IF mask = {} THEN <<>>
    ELSE LET x == CHOOSE y \in mask : \A z \in mask : y <= z
         IN  <<x>> \o Pack(mask \ {x})

-----------------------------------------------------------------------------
(* Module parameters                                                        *)

CpAir == 1005

MinSlope == R(1, 1000)

MaxSlope == Num(5)

GateThreshold == R(1, 10000)

InitTemp == Num(25)

(* Air-node class types of DataRoomAirModel *)
InletAirNode == 0
FloorAirNode == 1
ControlAirNode == 2
CeilingAirNode == 3
MundtRoomAirNode == 4
ReturnAirNode == 10
InitClassType == -1
UnknownAirNode == MundtRoomAirNode + 3

(* Room-air model types and coupling schemes, reference-air modes *)
RoomAirModel_Mundt == "Mundt"
RoomAirModel_Mixing == "Mixing"
DirectCoupling == "Direct"
IndirectCoupling == "Indirect"
ZoneMeanAirTemp == "ZoneMeanAirTemp"
AdjacentAirTemp == "AdjacentAirTemp"

-----------------------------------------------------------------------------
(* The host's building: what the topology database holds before the first   *)
(* call.  Three zones; the second one does not use the Mundt model.         *)

MaxSurfs == 3

ZoneSurfCount == <<MaxSurfs, MaxSurfs + 1, MaxSurfs - 1>>

NumOfZones == Len(ZoneSurfCount)

ZoneSurfaceFirst(z) == 1 + (IF z > 1 THEN ZoneSurfCount[1] ELSE 0) + (IF z > 2 THEN ZoneSurfCount[2] ELSE 0)

TotSurfaces == ZoneSurfCount[1] + ZoneSurfCount[2] + ZoneSurfCount[3]

ZoneName(z) == <<"ZONE1", "ZONE2", "ZONE3">>[z]

\* the zone name as the air-node objects spell it
AirNodeZoneName(z) == <<"Zone1", "zone2", "Zone3">>[z]

MakeUPPERCase(str) ==
    CASE str \in {"Zone1", "ZONE1"} -> "ZONE1"
      [] str \in {"zone2", "ZONE2"} -> "ZONE2"
      [] str \in {"Zone3", "ZONE3"} -> "ZONE3"
      [] OTHER -> str

SameString(a, b) == MakeUPPERCase(a) = MakeUPPERCase(b)

Nd(class, height, mask) == [ClassType |-> class, Height |-> Num(height), SurfMask |-> mask]

\* the air-node lists a zone may be given (class, height [m], local surfaces)
ZoneKinds == {"plain", "room", "inverted", "nofloor", "badclass", "unsetclass", "tworoom"}

KindNodes(kind) ==
    CASE kind = "plain" ->
           <<Nd(InletAirNode, 2, {}), Nd(FloorAirNode, 0, {1}), Nd(ControlAirNode, 1, {}),
             Nd(CeilingAirNode, 3, {2}), Nd(ReturnAirNode, 3, {})>>
      [] kind = "room" ->
           <<Nd(ReturnAirNode, 2, {}), Nd(InletAirNode, 2, {}), Nd(FloorAirNode, 0, {1}),
             Nd(CeilingAirNode, 3, {2}), Nd(ControlAirNode, 1, {}), Nd(MundtRoomAirNode, 1, {2, 3})>>
      [] kind = "inverted" ->
           <<Nd(InletAirNode, 2, {}), Nd(FloorAirNode, 1, {1}), Nd(ControlAirNode, 1, {}),
             Nd(CeilingAirNode, 2, {2}), Nd(ReturnAirNode, 0, {})>>
      [] kind = "nofloor" ->
           <<Nd(InletAirNode, 2, {}), Nd(ControlAirNode, 1, {1}), Nd(CeilingAirNode, 3, {2}),
             Nd(ReturnAirNode, 3, {}), Nd(MundtRoomAirNode, 1, {})>>
      [] kind = "badclass" ->
           <<Nd(InletAirNode, 2, {}), Nd(FloorAirNode, 0, {1}), Nd(UnknownAirNode, 1, {}),
             Nd(ControlAirNode, 1, {}), Nd(CeilingAirNode, 3, {2}), Nd(ReturnAirNode, 3, {})>>
      [] kind = "unsetclass" ->
           <<Nd(InletAirNode, 2, {}), Nd(FloorAirNode, 0, {1}), Nd(ControlAirNode, 1, {}),
             Nd(CeilingAirNode, 3, {2}), Nd(ReturnAirNode, 3, {}), Nd(InitClassType, 1, {})>>
      [] kind = "tworoom" ->
           <<Nd(InletAirNode, 2, {}), Nd(FloorAirNode, 0, {1, 2}), Nd(ControlAirNode, 1, {}),
             Nd(CeilingAirNode, 3, {3}), Nd(ReturnAirNode, 3, {}), Nd(MundtRoomAirNode, 1, {2}),
             Nd(MundtRoomAirNode, 4, {3})>>
      [] kind = "big" ->
           <<Nd(InletAirNode, 2, {}), Nd(FloorAirNode, 0, {1, 2, 3}), Nd(ControlAirNode, 1, {}),
             Nd(CeilingAirNode, 3, {4}), Nd(ReturnAirNode, 3, {}), Nd(MundtRoomAirNode, 1, {}),
             Nd(MundtRoomAirNode, 1, {}), Nd(MundtRoomAirNode, 2, {})>>

\* a building: the kinds of its two Mundt zones (zone 1 couples directly, zone 3
\* indirectly), the zone (if any) no system serves, the zone (if any) that
\* declares one air node more than the air-node list defines for it, and the
\* order of the zones' blocks in the air-node list
Buildings ==
    {b \in [kind1 : ZoneKinds, kind3 : {"plain", "nofloor", "badclass", "unsetclass"},
            uncontrolled : {0, 3}, extra : {0, 1, 3}, order : {<<1, 2, 3>>, <<3, 2, 1>>}] :
        b.extra = 0 => b.order = <<1, 2, 3>>}

BuildingKind(b, z) == IF z = 1 THEN b.kind1 ELSE IF z = 2 THEN "big" ELSE b.kind3

BuildingZone(b) ==
    [z \in 1..NumOfZones |->
        [Name |-> ZoneName(z), SurfaceFirst |-> ZoneSurfaceFirst(z),
         SurfaceLast |-> ZoneSurfaceFirst(z) + ZoneSurfCount[z] - 1,
         IsControlled |-> (z # b.uncontrolled), SystemZoneNodeNumber |-> z,
         CeilingHeight |-> Num(3), FloorArea |-> Num(10),
         Multiplier |-> Num(1), ListMultiplier |-> Num(1), NoHeatToReturnAir |-> FALSE]]

BuildingAirModel(b) ==
    [z \in 1..NumOfZones |->
        [AirModelType |-> (IF z = 2 THEN RoomAirModel_Mixing ELSE RoomAirModel_Mundt),
         TempCoupleScheme |-> (IF z = 1 THEN DirectCoupling ELSE IndirectCoupling), SimAirModel |-> FALSE]]

ZoneAirNodes(b, z) ==
    LET nodes == KindNodes(BuildingKind(b, z))
    IN  [i \in 1..Len(nodes) |->
            [ZoneName |-> AirNodeZoneName(z), Name |-> <<z, i>>,
             ClassType |-> nodes[i].ClassType, Height |-> nodes[i].Height,
             SurfMask |-> nodes[i].SurfMask \cap (1..ZoneSurfCount[z])]]

BuildingAirNode(b) ==
    ZoneAirNodes(b, b.order[1]) \o ZoneAirNodes(b, b.order[2]) \o ZoneAirNodes(b, b.order[3])

BuildingTotNumOfZoneAirNodes(b) ==
    [z \in 1..NumOfZones |-> Len(KindNodes(BuildingKind(b, z))) + (IF z = b.extra THEN 1 ELSE 0)]

SurfaceArea(g) == IF \E z \in 1..NumOfZones : g = ZoneSurfaceFirst(z) THEN Num(10) ELSE Num(10 + g)

BuildingSurface ==
    [g \in 1..TotSurfaces |-> [Area |-> SurfaceArea(g), TAirRef |-> ZoneMeanAirTemp]]

-----------------------------------------------------------------------------
VARIABLES
    \* host data (DataHeatBalance, DataSurfaces, DataRoomAirModel, DataLoopNode, ...)
    Zone, Surface, AirNode, AirModel, TotNumOfZoneAirNodes,
    TempEffBulkAir, Node, TempTstatAir,
    \* module variables of MundtSimMgr
    FirstTimeFlag, ZoneData, LineNode, MundtAirSurf, FloorSurf,
    FloorSurfSetIDs, TheseSurfIDs, RoomNodeIDs, ID1dSurf,
    MundtCeilAirID, MundtFootAirID, SupplyNodeID, TstatNodeID, ReturnNodeID,
    NumRoomNodes, NumFloorSurfs, MundtZoneNum,
    ZoneHeight, ZoneFloorArea, QventCool, ConvIntGain,
    SupplyAirTemp, SupplyAirVolumeRate, ZoneAirDensity, QsysCoolTot,
    \* the run: terminated by ShowFatalError, and what was reported
    fatal, msgs,
    \* the last ManageMundtModel invocation: its zone, host inputs and trace
    call

vars ==
    <<Zone, Surface, AirNode, AirModel, TotNumOfZoneAirNodes,
      TempEffBulkAir, Node, TempTstatAir,
      FirstTimeFlag, ZoneData, LineNode, MundtAirSurf, FloorSurf,
      FloorSurfSetIDs, TheseSurfIDs, RoomNodeIDs, ID1dSurf,
      MundtCeilAirID, MundtFootAirID, SupplyNodeID, TstatNodeID, ReturnNodeID,
      NumRoomNodes, NumFloorSurfs, MundtZoneNum,
      ZoneHeight, ZoneFloorArea, QventCool, ConvIntGain,
      SupplyAirTemp, SupplyAirVolumeRate, ZoneAirDensity, QsysCoolTot,
      fatal, msgs, call>>

\* the program state as one record, the form the routines below work on
State ==
    [Zone |-> Zone, Surface |-> Surface, AirNode |-> AirNode, AirModel |-> AirModel,
     TotNumOfZoneAirNodes |-> TotNumOfZoneAirNodes,
     TempEffBulkAir |-> TempEffBulkAir, Node |-> Node, TempTstatAir |-> TempTstatAir,
     FirstTimeFlag |-> FirstTimeFlag, ZoneData |-> ZoneData, LineNode |-> LineNode,
     MundtAirSurf |-> MundtAirSurf, FloorSurf |-> FloorSurf,
     FloorSurfSetIDs |-> FloorSurfSetIDs, TheseSurfIDs |-> TheseSurfIDs,
     RoomNodeIDs |-> RoomNodeIDs, ID1dSurf |-> ID1dSurf,
     MundtCeilAirID |-> MundtCeilAirID, MundtFootAirID |-> MundtFootAirID,
     SupplyNodeID |-> SupplyNodeID, TstatNodeID |-> TstatNodeID, ReturnNodeID |-> ReturnNodeID,
     NumRoomNodes |-> NumRoomNodes, NumFloorSurfs |-> NumFloorSurfs, MundtZoneNum |-> MundtZoneNum,
     ZoneHeight |-> ZoneHeight, ZoneFloorArea |-> ZoneFloorArea, QventCool |-> QventCool,
     ConvIntGain |-> ConvIntGain, SupplyAirTemp |-> SupplyAirTemp,
     SupplyAirVolumeRate |-> SupplyAirVolumeRate, ZoneAirDensity |-> ZoneAirDensity,
     QsysCoolTot |-> QsysCoolTot, fatal |-> fatal, msgs |-> msgs, call |-> call]

\* the trace of an invocation that has not started
NoCall ==
    [ZoneNum |-> 0, in |-> <<>>, ranInit |-> FALSE, ranGet |-> FALSE, gate |-> FALSE,
     ranSetup |-> FALSE, ErrorsFound |-> FALSE, ranCalc |-> FALSE, ranSet |-> FALSE,
     calc |-> <<>>, wrTemp |-> <<>>, wrHc |-> <<>>, wrTMeanAir |-> <<>>, initScanned |-> {},
     outOfBounds |-> FALSE]

\* the program before its first call, in building b
Start(b) ==
    [Zone |-> BuildingZone(b), Surface |-> BuildingSurface, AirNode |-> BuildingAirNode(b),
     AirModel |-> BuildingAirModel(b), TotNumOfZoneAirNodes |-> BuildingTotNumOfZoneAirNodes(b),
     TempEffBulkAir |-> [g \in 1..TotSurfaces |-> Num(0)],
     Node |-> [z \in 1..NumOfZones |-> [Temp |-> Num(0)]],
     TempTstatAir |-> [z \in 1..NumOfZones |-> Num(0)],
     FirstTimeFlag |-> TRUE, ZoneData |-> <<>>, LineNode |-> <<>>, MundtAirSurf |-> <<>>,
     FloorSurf |-> <<>>, FloorSurfSetIDs |-> <<>>, TheseSurfIDs |-> <<>>, RoomNodeIDs |-> <<>>,
     ID1dSurf |-> <<>>,
     MundtCeilAirID |-> 0, MundtFootAirID |-> 0, SupplyNodeID |-> 0, TstatNodeID |-> 0,
     ReturnNodeID |-> 0, NumRoomNodes |-> 0, NumFloorSurfs |-> 0, MundtZoneNum |-> 0,
     ZoneHeight |-> Num(0), ZoneFloorArea |-> Num(0), QventCool |-> Num(0),
     ConvIntGain |-> Num(0), SupplyAirTemp |-> Num(0), SupplyAirVolumeRate |-> Num(0),
     ZoneAirDensity |-> Num(0), QsysCoolTot |-> Num(0),
     fatal |-> FALSE, msgs |-> <<>>, call |-> NoCall]

-----------------------------------------------------------------------------
(* ShowSevereError / ShowFatalError: a report; the fatal one ends the run   *)

Severe(text, z) == [sev |-> "Severe", text |-> text, zone |-> z]

Fatal(text, z) == [sev |-> "Fatal", text |-> text, zone |-> z]

-----------------------------------------------------------------------------
(* InitMundtModel                                                           *)

DefaultLineNode ==
    [AirNodeName |-> "", ClassType |-> InitClassType, Height |-> Num(0), Temp |-> InitTemp,
     SurfMask |-> {}, AirNodeNum |-> 0, AirNodeBeginNum |-> 0]

DefaultAirSurf == [Area |-> Num(0), Temp |-> InitTemp, Hc |-> Num(0), TMeanAir |-> InitTemp]

DefaultFloorSurf == [Temp |-> InitTemp, Hc |-> Num(0), Area |-> Num(0)]

MundtZones(s) == {z \in 1..NumOfZones : s.AirModel[z].AirModelType = RoomAirModel_Mundt}

SetMax(S) == IF S = {} THEN 0 ELSE CHOOSE x \in S : \A y \in S : y <= x

\* the first loop: count the Mundt zones and record each one's surface range
InitZoneData(s) ==
    [z \in 1..NumOfZones |->
        IF z \in MundtZones(s)
        THEN [SurfFirst |-> s.Zone[z].SurfaceFirst,
              NumOfSurfs |-> s.Zone[z].SurfaceLast - s.Zone[z].SurfaceFirst + 1,
              MundtZoneIndex |-> Cardinality({y \in MundtZones(s) : y <= z})]
        ELSE [SurfFirst |-> 0, NumOfSurfs |-> 0, MundtZoneIndex |-> 0]]

\* faulty variant: the maximum is taken over every zone of the building
InitMaxNumOfSurfsAllZones(s) ==
    SetMax({s.Zone[z].SurfaceLast - s.Zone[z].SurfaceFirst + 1 : z \in 1..NumOfZones})

InitMaxNumOfSurfs(s) == SetMax({InitZoneData(s)[z].NumOfSurfs : z \in MundtZones(s)})

InitMaxNumOfAirNodes(s) == SetMax({s.TotNumOfZoneAirNodes[z] : z \in MundtZones(s)})

\* faulty variant: every scan starts again at the head of the list
FindAirNodeFromStart(s, AirNodeBeginNum, ZoneIndex) ==
    LET hits == {k \in 1..Len(s.AirNode) :
                    SameString(s.AirNode[k].ZoneName, s.Zone[ZoneIndex].Name)}
    IN  IF hits = {} THEN 0 ELSE CHOOSE k \in hits : \A j \in hits : k <= j

\* the inner scan: the first definition at or after AirNodeBeginNum whose zone
\* name is this zone's; 0 when the scan runs off the list
FindAirNode(s, AirNodeBeginNum, ZoneIndex) ==
    LET hits == {k \in AirNodeBeginNum..Len(s.AirNode) :
                    SameString(s.AirNode[k].ZoneName, s.Zone[ZoneIndex].Name)}
    IN  IF hits = {} THEN 0 ELSE CHOOSE k \in hits : \A j \in hits : k <= j

\* the air-node loop of one zone, from NodeNum on
RECURSIVE InitNodeLoop(_, _, _, _, _)
InitNodeLoop(s, ZoneIndex, MundtZoneIndex, NodeNum, a) ==
    IF NodeNum > s.TotNumOfZoneAirNodes[ZoneIndex] THEN a
    ELSE
      LET Scan(begin) ==
            IF begin > Len(s.AirNode)
            THEN [a EXCEPT !.fatal = TRUE, !.AirNodeBeginNum = begin,
                           !.LineNode[MundtZoneIndex][NodeNum].AirNodeBeginNum = begin,
                           !.msgs = Append(@, Fatal("An array bound exceeded", ZoneIndex))]
            ELSE
              LET Found(AirNodeNum, def) ==
                    IF AirNodeNum = 0
                    THEN InitNodeLoop(s, ZoneIndex, MundtZoneIndex, NodeNum + 1,
                             [a EXCEPT !.AirNodeBeginNum = begin, !.AirNodeFoundFlag = FALSE,
                                       !.LineNode[MundtZoneIndex][NodeNum].AirNodeBeginNum = begin,
                                       !.ErrorsFound = TRUE,
                                       !.msgs = Append(@, Severe("Air Node in Zone is not found",
                                                                 ZoneIndex))])
                    ELSE InitNodeLoop(s, ZoneIndex, MundtZoneIndex, NodeNum + 1,
                             [a EXCEPT !.LineNode[MundtZoneIndex][NodeNum] =
                                           [AirNodeName |-> def.Name, ClassType |-> def.ClassType,
                                            Height |-> def.Height, Temp |-> InitTemp,
                                            SurfMask |-> def.SurfMask, AirNodeNum |-> AirNodeNum,
                                            AirNodeBeginNum |-> begin],
                                       !.AirNodeBeginNum = AirNodeNum + 1,
                                       !.AirNodeFoundFlag = TRUE,
                                       !.RoomNodesCount =
                                           IF def.ClassType = MundtRoomAirNode THEN @ + 1 ELSE @,
                                       !.FloorSurfCount =
                                           IF def.ClassType = FloorAirNode
                                           THEN @ + Cardinality(def.SurfMask) ELSE @])
                  At(AirNodeNum) ==
                    Found(AirNodeNum, IF AirNodeNum = 0 THEN <<>> ELSE s.AirNode[AirNodeNum])
              IN  At(FindAirNode(s, begin, ZoneIndex))
      IN  Scan(IF NodeNum = 1 THEN NodeNum ELSE a.AirNodeBeginNum)

\* the loop over the Mundt zones, from MundtZoneIndex on
RECURSIVE InitZoneLoop(_, _, _, _)
InitZoneLoop(s, zd, MundtZoneIndex, a) ==
    IF MundtZoneIndex > Cardinality(MundtZones(s)) \/ a.fatal THEN a
    ELSE
      LET Maxima(a2) ==
            IF a2.fatal THEN a2
            ELSE InitZoneLoop(s, zd, MundtZoneIndex + 1,
                     [a2 EXCEPT
                        !.MaxNumOfRoomNodes = Max2(@, a2.RoomNodesCount),
                        !.MaxNumOfFloorSurfs = Max2(@, a2.FloorSurfCount)])
          ZoneData_Loop(ZoneIndex) ==
            Maxima(InitNodeLoop(s, ZoneIndex, MundtZoneIndex, 1,
                     [a EXCEPT
                        !.MundtAirSurf[MundtZoneIndex] =
                            [SurfNum \in DOMAIN @ |->
                                IF SurfNum <= zd[ZoneIndex].NumOfSurfs
                                THEN [@[SurfNum] EXCEPT
                                        !.Area = s.Surface[zd[ZoneIndex].SurfFirst + SurfNum - 1].Area]
                                ELSE @[SurfNum]],
                        !.RoomNodesCount = 0, !.FloorSurfCount = 0,
                        !.scanned = @ \cup {ZoneIndex}]))
      IN  ZoneData_Loop(CHOOSE z \in 1..NumOfZones : zd[z].MundtZoneIndex = MundtZoneIndex)

InitMundtModel(s) ==
    LET Allocate(zd, NumOfMundtZones, MaxNumOfSurfs, MaxNumOfAirNodes) ==
          LET Finish(a) ==
                LET Abort(stop, s1) ==
                      IF stop THEN s1
                      ELSE [s1 EXCEPT
                              !.RoomNodeIDs = [i \in 1..a.MaxNumOfRoomNodes |-> 0],
                              !.FloorSurfSetIDs = [i \in 1..a.MaxNumOfFloorSurfs |-> 0],
                              !.FloorSurf = [i \in 1..a.MaxNumOfFloorSurfs |-> DefaultFloorSurf]]
                IN  Abort(a.fatal \/ a.ErrorsFound,
                          [s EXCEPT
                             !.ZoneData = zd,
                             !.ID1dSurf = [SurfNum \in 1..MaxNumOfSurfs |-> SurfNum],
                             !.TheseSurfIDs = [SurfNum \in 1..MaxNumOfSurfs |-> 0],
                             !.MundtAirSurf = a.MundtAirSurf,
                             !.LineNode = a.LineNode,
                             !.call.ranInit = TRUE,
                             !.call.initScanned = a.scanned,
                             !.fatal = a.fatal \/ a.ErrorsFound,
                             !.msgs = IF a.ErrorsFound /\ ~a.fatal
                                      THEN Append(a.msgs,
                                               Fatal("InitMundtModel: Preceding condition(s) cause termination", 0))
                                      ELSE a.msgs])
          IN  Finish(InitZoneLoop(s, zd, 1,
                  [LineNode |-> [m \in 1..NumOfMundtZones |->
                                    [n \in 1..MaxNumOfAirNodes |-> DefaultLineNode]],
                   MundtAirSurf |-> [m \in 1..NumOfMundtZones |->
                                        [n \in 1..MaxNumOfSurfs |-> DefaultAirSurf]],
                   MaxNumOfRoomNodes |-> 0, MaxNumOfFloorSurfs |-> 0,
                   RoomNodesCount |-> 0, FloorSurfCount |-> 0,
                   AirNodeBeginNum |-> 0, AirNodeFoundFlag |-> FALSE,
                   ErrorsFound |-> FALSE, fatal |-> FALSE, msgs |-> s.msgs, scanned |-> {}]))
    IN  Allocate(InitZoneData(s), Cardinality(MundtZones(s)),
                 InitMaxNumOfSurfs(s), InitMaxNumOfAirNodes(s))

-----------------------------------------------------------------------------
(* The host's values at one call                                            *)

ConvectiveFloorSplit(ZoneNum) == R(1, 2)

InfiltratFloorSplit(ZoneNum) == R(1, 2)

HostInput(m, t, g) ==
    [MassFlowRate |-> m,                         \* Node( ZoneNode ).MassFlowRate
     Rho |-> R(6, 5),                            \* PsyRhoAirFnPbTdbW( ... )
     Inlets |-> <<[Temp |-> t, MassFlowRate |-> m]>>,
     CpInlet |-> Num(1005),                      \* PsyCpAirFnWTdb( W, NodeTemp )
     CpZone |-> Num(1005),                       \* PsyCpAirFnWTdb( W, MAT )
     MAT |-> Num(25),
     IntGain |-> g,                              \* SumAllInternalConvectionGains
     SumConvHTRadSys |-> Num(0), SumConvPool |-> Num(0),
     SysDepZoneLoadsLagged |-> Num(0), NonAirSystemResponse |-> Num(0),
     RetAirConvGain |-> Num(0),
     MCPI |-> Num(2), OutDryBulbTemp |-> Num(30),
     TempSurfIn |-> [sf \in 1..TotSurfaces |-> Num(22)],
     HConvIn |-> [sf \in 1..TotSurfaces |-> Num(1)],
     TempZoneThermostatSetPoint |-> Num(24), ZT |-> Num(26)]

\* system off, a flow of exactly 0.0001 m3/s, a small flow
MassFlowRates == {Num(0), R(3, 25000), R(1, 1005)}

\* a cold supply, and the supply that makes the load exactly 0.0001 W
InletTemps == {Num(15), R(249999, 10000)}

IntGains == {Num(70), Num(-150), Num(-260)}

HostInputs ==
    {HostInput(m, Num(15), Num(70)) : m \in MassFlowRates}
    \cup {HostInput(R(1, 1005), t, g) : t \in InletTemps, g \in IntGains}

-----------------------------------------------------------------------------
(* GetSurfHBDataForMundtModel                                               *)

\* faulty variant: every zone is taken to be served by a system
ZoneIsControlledAlways(s, ZoneNum) == TRUE

\* check whether this zone is a controlled zone or not
ZoneIsControlled(s, ZoneNum) == s.Zone[ZoneNum].IsControlled

GetSurfHBDataForMundtModel(s, ZoneNum, in) ==
    IF ~ZoneIsControlled(s, ZoneNum)
    THEN [s EXCEPT !.fatal = TRUE,
                   !.msgs = Append(@, Fatal("Zones must be controlled for Mundt air model", ZoneNum))]
    ELSE
      LET ZoneMult == RMul(s.Zone[ZoneNum].Multiplier, s.Zone[ZoneNum].ListMultiplier)
          rho == in.Rho
          ZoneMassFlowRate == in.MassFlowRate
          SumSysMCp == RSum([i \in DOMAIN in.Inlets |->
                                RMul(in.Inlets[i].MassFlowRate, in.CpInlet)], DOMAIN in.Inlets)
          SumSysMCpT == RSum([i \in DOMAIN in.Inlets |->
                                RMul(RMul(in.Inlets[i].MassFlowRate, in.CpInlet), in.Inlets[i].Temp)],
                             DOMAIN in.Inlets)
          off == RLe(ZoneMassFlowRate, GateThreshold)
          gain0 == RAdd(RAdd(RAdd(RAdd(in.IntGain, in.SumConvHTRadSys), in.SumConvPool),
                             in.SysDepZoneLoadsLagged),
                        RDiv(in.NonAirSystemResponse, ZoneMult))
          zd == s.ZoneData[ZoneNum]
      IN  [s EXCEPT
             !.ZoneHeight = s.Zone[ZoneNum].CeilingHeight,
             !.ZoneFloorArea = s.Zone[ZoneNum].FloorArea,
             !.ZoneAirDensity = rho,
             !.SupplyAirVolumeRate = RDiv(ZoneMassFlowRate, rho),
             !.QsysCoolTot =
                 IF off THEN Num(0)
                 ELSE RNeg(RSub(SumSysMCpT, RMul(RMul(ZoneMassFlowRate, in.CpZone), in.MAT))),
             !.SupplyAirTemp =
                 IF off THEN @
                 ELSE IF RLe(SumSysMCp, Num(0)) THEN in.Inlets[1].Temp
                 ELSE RDiv(SumSysMCpT, SumSysMCp),
             !.ConvIntGain =
                 IF s.Zone[ZoneNum].NoHeatToReturnAir THEN RAdd(gain0, in.RetAirConvGain) ELSE gain0,
             !.QventCool = RNeg(RMul(in.MCPI, RSub(in.OutDryBulbTemp, in.MAT))),
             !.MundtAirSurf[s.MundtZoneNum] =
                 [SurfNum \in DOMAIN @ |->
                     IF SurfNum <= zd.NumOfSurfs
                     THEN [@[SurfNum] EXCEPT !.Temp = in.TempSurfIn[zd.SurfFirst + SurfNum - 1],
                                             !.Hc = in.HConvIn[zd.SurfFirst + SurfNum - 1]]
                     ELSE @[SurfNum]],
             !.call.ranGet = TRUE,
             !.call.wrTemp = [SurfNum \in 1..zd.NumOfSurfs |-> 1],
             !.call.wrHc = [SurfNum \in 1..zd.NumOfSurfs |-> 1]]

\* faulty variant: the gate with >= in place of >
GatePassesNotStrict(s) ==
    RGe(s.SupplyAirVolumeRate, GateThreshold) /\ RGe(s.QsysCoolTot, GateThreshold)

\* use the Mundt model only for cooling case
GatePasses(s) ==
    RGt(s.SupplyAirVolumeRate, GateThreshold) /\ RGt(s.QsysCoolTot, GateThreshold)

-----------------------------------------------------------------------------
(* SetupMundtModel                                                          *)

\* the index the scan leaves in a role's ID: the last node of that class,
\* or what the ID held before when the zone has none
LastOfClass(s, ZoneNum, class, old) ==
    LET hits == {n \in 1..s.TotNumOfZoneAirNodes[ZoneNum] :
                    s.LineNode[s.MundtZoneNum][n].ClassType = class}
    IN  IF hits = {} THEN old ELSE SetMax(hits)

KnownClasses ==
    {InletAirNode, FloorAirNode, ControlAirNode, CeilingAirNode, MundtRoomAirNode, ReturnAirNode}

SetupFootAirID(s, ZoneNum) == LastOfClass(s, ZoneNum, FloorAirNode, s.MundtFootAirID)

SetupMundtModel(s, ZoneNum) ==
    LET nodes == s.LineNode[s.MundtZoneNum]
        rooms == Pack({n \in 1..s.TotNumOfZoneAirNodes[ZoneNum] :
                          nodes[n].ClassType = MundtRoomAirNode})
        nonStandard == {n \in 1..s.TotNumOfZoneAirNodes[ZoneNum] :
                          nodes[n].ClassType \notin KnownClasses}
        foot == SetupFootAirID(s, ZoneNum)
        s1 == [s EXCEPT
                 !.NumRoomNodes = Len(rooms),
                 !.RoomNodeIDs = [i \in DOMAIN @ |-> IF i <= Len(rooms) THEN rooms[i] ELSE @[i]],
                 !.SupplyNodeID = LastOfClass(s, ZoneNum, InletAirNode, @),
                 !.MundtFootAirID = foot,
                 !.TstatNodeID = LastOfClass(s, ZoneNum, ControlAirNode, @),
                 !.MundtCeilAirID = LastOfClass(s, ZoneNum, CeilingAirNode, @),
                 !.ReturnNodeID = LastOfClass(s, ZoneNum, ReturnAirNode, @),
                 !.call.ranSetup = TRUE,
                 !.call.ErrorsFound = (nonStandard # {}),
                 !.call.outOfBounds = @ \/ Len(rooms) > Len(s.RoomNodeIDs),
                 !.msgs = @ \o [i \in 1..Cardinality(nonStandard) |->
                                   Severe("SetupMundtModel: Non-Standard Type of Air Node", ZoneNum)]]
    IN  IF foot > 0
        THEN LET inRange == foot \in DOMAIN nodes
                 mask == IF inRange THEN nodes[foot].SurfMask ELSE {}
                 ids == Pack(mask)
             IN  [s1 EXCEPT
                    !.NumFloorSurfs = Cardinality(mask),
                    !.FloorSurfSetIDs = ids,
                    !.FloorSurf =
                        [i \in DOMAIN @ |->
                            IF i <= Len(ids)
                            THEN [Temp |-> s.MundtAirSurf[s.MundtZoneNum][ids[i]].Temp,
                                  Hc |-> s.MundtAirSurf[s.MundtZoneNum][ids[i]].Hc,
                                  Area |-> s.MundtAirSurf[s.MundtZoneNum][ids[i]].Area]
                            ELSE DefaultFloorSurf],
                    !.call.outOfBounds = @ \/ ~inRange \/ Len(ids) > Len(s.FloorSurf)]
        ELSE [s1 EXCEPT
                !.call.ErrorsFound = TRUE,
                !.msgs = Append(@, Severe("SetupMundtModel: Mundt model has no FloorAirNode", ZoneNum))]

-----------------------------------------------------------------------------
(* CalcMundtModel                                                           *)

\* LineNode( MundtZoneNum, NodeID ); an index outside the array reads nothing
\* the program defines
NodeAt(s, NodeID) ==
    IF NodeID \in DOMAIN s.LineNode[s.MundtZoneNum]
    THEN s.LineNode[s.MundtZoneNum][NodeID] ELSE DefaultLineNode

\* faulty variant: the result is stored in the node's height
RECURSIVE SetNodeResultsInHeight(_, _)
SetNodeResultsInHeight(nodes, writes) ==
    IF writes = <<>> THEN nodes
    ELSE LET w == Head(writes)
         IN  SetNodeResultsInHeight(
                 IF w[1] \in DOMAIN nodes THEN [nodes EXCEPT ![w[1]].Height = w[2]] ELSE nodes,
                 Tail(writes))

\* SetNodeResult, applied to a list of <<NodeID, TempResult>> in order
RECURSIVE SetNodeResults(_, _)
SetNodeResults(nodes, writes) ==
    IF writes = <<>> THEN nodes
    ELSE LET w == Head(writes)
         IN  SetNodeResults(
                 IF w[1] \in DOMAIN nodes THEN [nodes EXCEPT ![w[1]].Temp = w[2]] ELSE nodes,
                 Tail(writes))

\* SetSurfTmeanAir, applied to a list of <<SurfID, TeffAir>> in order
RECURSIVE SetSurfTmeanAirs(_, _)
SetSurfTmeanAirs(surfs, writes) ==
    IF writes = <<>> THEN surfs
    ELSE LET w == Head(writes)
         IN  SetSurfTmeanAirs(
                 IF w[1] \in DOMAIN surfs THEN [surfs EXCEPT ![w[1]].TMeanAir = w[2]] ELSE surfs,
                 Tail(writes))

\* Eq 2.2: the floor air temperature from the balance at the floor node
CalcTAirFoot(s, ZoneNum) ==
    LET QequipConvFloor == RMul(ConvectiveFloorSplit(ZoneNum), s.ConvIntGain)
        QSensInfilFloor == RMul(RNeg(InfiltratFloorSplit(ZoneNum)), s.QventCool)
        FloorSumHAT == RSum([i \in DOMAIN s.FloorSurf |->
                               RMul(RMul(s.FloorSurf[i].Area, s.FloorSurf[i].Hc), s.FloorSurf[i].Temp)],
                            DOMAIN s.FloorSurf)
        FloorSumHA == RSum([i \in DOMAIN s.FloorSurf |->
                               RMul(s.FloorSurf[i].Area, s.FloorSurf[i].Hc)],
                           DOMAIN s.FloorSurf)
        mcp == RMul(RMul(s.ZoneAirDensity, Num(CpAir)), s.SupplyAirVolumeRate)
    IN  RDiv(RAdd(RAdd(RAdd(RMul(mcp, s.SupplyAirTemp), FloorSumHAT), QequipConvFloor),
                  QSensInfilFloor),
             RAdd(mcp, FloorSumHA))

\* faulty variant: Eq 2.3 applied whatever the cooling load
CalcTLeavingUnguarded(s) ==
    RAdd(RDiv(s.QsysCoolTot,
              RMul(RMul(s.ZoneAirDensity, Num(CpAir)), s.SupplyAirVolumeRate)),
         s.SupplyAirTemp)

\* Eq 2.3: the leaving air temperature
CalcTLeaving(s) ==
    IF RLe(s.QsysCoolTot, Num(0)) THEN s.SupplyAirTemp
    ELSE RAdd(RDiv(s.QsysCoolTot,
                   RMul(RMul(s.ZoneAirDensity, Num(CpAir)), s.SupplyAirVolumeRate)),
              s.SupplyAirTemp)

\* faulty variant: the slope check without its lower bound
CheckSlopeNoMin(Slope0, TAirFoot0, TLeaving, dH) ==
    LET hi == RGt(Slope0, MaxSlope)
    IN  [Slope |-> IF hi THEN MaxSlope ELSE Slope0,
         TAirFoot |-> IF hi THEN RSub(TLeaving, RMul(MaxSlope, dH)) ELSE TAirFoot0,
         hi |-> hi, lo |-> FALSE]

\* faulty variant: the upper bound is applied without recomputing the floor temperature
CheckSlopeStaleFoot(Slope0, TAirFoot0, TLeaving, dH) ==
    LET hi == RGt(Slope0, MaxSlope)
        Slope1 == IF hi THEN MaxSlope ELSE Slope0
        lo == RLt(Slope1, MinSlope)
    IN  [Slope |-> IF lo THEN MinSlope ELSE Slope1,
         TAirFoot |-> IF lo THEN TLeaving ELSE TAirFoot0,
         hi |-> hi, lo |-> lo]

\* the slope check: the slope and floor temperature the solve goes on with
CheckSlope(Slope0, TAirFoot0, TLeaving, dH) ==
    LET hi == RGt(Slope0, MaxSlope)
        Slope1 == IF hi THEN MaxSlope ELSE Slope0
        TAirFoot1 == IF hi THEN RSub(TLeaving, RMul(Slope1, dH)) ELSE TAirFoot0
        lo == RLt(Slope1, MinSlope)
    IN  [Slope |-> IF lo THEN MinSlope ELSE Slope1,
         TAirFoot |-> IF lo THEN TLeaving ELSE TAirFoot1,
         hi |-> hi, lo |-> lo]

\* faulty variant: the gradient line with the height difference taken the other way
LineTempReversed(TLeaving, Slope, ReturnHeight, Height) ==
    RSub(TLeaving, RMul(Slope, RSub(Height, ReturnHeight)))

\* Eq 2.4: the temperature on the gradient line at a height
LineTemp(TLeaving, Slope, ReturnHeight, Height) ==
    RSub(TLeaving, RMul(Slope, RSub(ReturnHeight, Height)))

\* faulty variant: the Room nodes' surfaces are written first, the floor's last
CalcSurfWritesRoomsFirst(s, TAirFoot, TAirCeil, TRoom) ==
    LET ceil == Pack(NodeAt(s, s.MundtCeilAirID).SurfMask)
        RECURSIVE RoomWrites(_)
        RoomWrites(i) ==
            IF i > s.NumRoomNodes THEN <<>>
            ELSE LET ids == Pack(NodeAt(s, s.RoomNodeIDs[i]).SurfMask)
                 IN  [k \in 1..Len(ids) |-> <<ids[k], TRoom[i]>>] \o RoomWrites(i + 1)
    IN  RoomWrites(1)
        \o [k \in 1..Len(ceil) |-> <<ceil[k], TAirCeil>>]
        \o [k \in 1..s.NumFloorSurfs |-> <<s.FloorSurfSetIDs[k], TAirFoot>>]

\* the surfaces CalcMundtModel gives an effective air temperature, in order
CalcSurfWrites(s, TAirFoot, TAirCeil, TRoom) ==
    LET ceil == Pack(NodeAt(s, s.MundtCeilAirID).SurfMask)
        RECURSIVE RoomWrites(_)
        RoomWrites(i) ==
            IF i > s.NumRoomNodes THEN <<>>
            ELSE LET ids == Pack(NodeAt(s, s.RoomNodeIDs[i]).SurfMask)
                 IN  [k \in 1..Len(ids) |-> <<ids[k], TRoom[i]>>] \o RoomWrites(i + 1)
    IN  [k \in 1..s.NumFloorSurfs |-> <<s.FloorSurfSetIDs[k], TAirFoot>>]
        \o [k \in 1..Len(ceil) |-> <<ceil[k], TAirCeil>>]
        \o RoomWrites(1)

CalcMundtModel(s, ZoneNum) ==
    LET Line(TAirFoot0, TLeaving, ReturnHeight, FloorHeight) ==
          LET Checked(dH, Slope0, chk) ==
                LET Results(TAirCeil, TControlPoint, TRoom) ==
                      LET Written(nodeWrites, surfWrites) ==
                            [s EXCEPT
                               !.LineNode[s.MundtZoneNum] = SetNodeResults(@, nodeWrites),
                               !.MundtAirSurf[s.MundtZoneNum] = SetSurfTmeanAirs(@, surfWrites),
                               !.TheseSurfIDs =
                                   IF s.NumRoomNodes > 0
                                   THEN Pack(NodeAt(s, s.RoomNodeIDs[s.NumRoomNodes]).SurfMask)
                                   ELSE Pack(NodeAt(s, s.MundtCeilAirID).SurfMask),
                               !.call.ranCalc = TRUE,
                               !.call.calc =
                                   [TAirFoot0 |-> TAirFoot0, TLeaving |-> TLeaving, dH |-> dH,
                                    ReturnHeight |-> ReturnHeight, FloorHeight |-> FloorHeight,
                                    CeilHeight |-> NodeAt(s, s.MundtCeilAirID).Height,
                                    Slope0 |-> Slope0, Slope |-> chk.Slope,
                                    hi |-> chk.hi, lo |-> chk.lo,
                                    TAirFoot |-> chk.TAirFoot, TAirCeil |-> TAirCeil,
                                    TControlPoint |-> TControlPoint, TRoom |-> TRoom],
                               !.call.wrTMeanAir =
                                   [SurfNum \in DOMAIN s.MundtAirSurf[s.MundtZoneNum] |->
                                       Cardinality({i \in DOMAIN surfWrites :
                                                       surfWrites[i][1] = SurfNum})],
                               !.call.outOfBounds =
                                   @ \/ ~({nodeWrites[i][1] : i \in DOMAIN nodeWrites}
                                            \subseteq DOMAIN s.LineNode[s.MundtZoneNum])
                                     \/ ~({surfWrites[i][1] : i \in DOMAIN surfWrites}
                                            \subseteq DOMAIN s.MundtAirSurf[s.MundtZoneNum])]
                      IN  Written(<<<<s.SupplyNodeID, s.SupplyAirTemp>>, <<s.ReturnNodeID, TLeaving>>,
                                    <<s.MundtCeilAirID, TAirCeil>>, <<s.MundtFootAirID, chk.TAirFoot>>,
                                    <<s.TstatNodeID, TControlPoint>>>>
                                  \o [i \in 1..s.NumRoomNodes |-> <<s.RoomNodeIDs[i], TRoom[i]>>],
                                  CalcSurfWrites(s, chk.TAirFoot, TAirCeil, TRoom))
                IN  Results(LineTemp(TLeaving, chk.Slope, ReturnHeight,
                                     NodeAt(s, s.MundtCeilAirID).Height),
                            LineTemp(TLeaving, chk.Slope, ReturnHeight,
                                     NodeAt(s, s.TstatNodeID).Height),
                            [i \in 1..s.NumRoomNodes |->
                                LineTemp(TLeaving, chk.Slope, ReturnHeight,
                                         NodeAt(s, s.RoomNodeIDs[i]).Height)])
              Sloped(dH, Slope0) == Checked(dH, Slope0, CheckSlope(Slope0, TAirFoot0, TLeaving, dH))
              Raw(dH) == Sloped(dH, RDiv(RSub(TLeaving, TAirFoot0), dH))
          IN  Raw(RSub(ReturnHeight, FloorHeight))
    IN  Line(CalcTAirFoot(s, ZoneNum), CalcTLeaving(s),
             NodeAt(s, s.ReturnNodeID).Height, NodeAt(s, s.MundtFootAirID).Height)

-----------------------------------------------------------------------------
(* SetSurfHBDataForMundtModel                                               *)

\* faulty variant: the outbound test looks at the flow alone
SystemIsOnFlowOnly(s) == RGt(s.SupplyAirVolumeRate, GateThreshold)

\* Controlled zone when the system is on
SystemIsOn(s) ==
    RGt(s.SupplyAirVolumeRate, GateThreshold) /\ RGt(s.QsysCoolTot, GateThreshold)

\* faulty variant: the outbound step always reports the well-mixed values
SetSurfHBDataWellMixed(s, ZoneNum, in) ==
    LET SurfFirst == s.ZoneData[ZoneNum].SurfFirst
        range == SurfFirst..(SurfFirst + s.ZoneData[ZoneNum].NumOfSurfs - 1)
    IN  [s EXCEPT
           !.call.ranSet = TRUE,
           !.TempEffBulkAir = [g \in DOMAIN @ |-> IF g \in range THEN in.MAT ELSE @[g]],
           !.Surface =
               [g \in DOMAIN @ |->
                   IF g \in range THEN [@[g] EXCEPT !.TAirRef = ZoneMeanAirTemp] ELSE @[g]],
           !.AirModel[ZoneNum].SimAirModel = FALSE]

SetSurfHBDataForMundtModel(s, ZoneNum, in) ==
    LET SurfFirst == s.ZoneData[ZoneNum].SurfFirst
        NumOfSurfs == s.ZoneData[ZoneNum].NumOfSurfs
        range == SurfFirst..(SurfFirst + NumOfSurfs - 1)
        surfs == s.MundtAirSurf[s.MundtZoneNum]
        TstatTemp == NodeAt(s, s.TstatNodeID).Temp
        ReturnTemp == NodeAt(s, s.ReturnNodeID).Temp
        ZoneNodeNum == s.Zone[ZoneNum].SystemZoneNodeNumber
        s1 == [s EXCEPT !.call.ranSet = TRUE]
    IN  IF SystemIsOn(s)
        THEN IF s.AirModel[ZoneNum].TempCoupleScheme = DirectCoupling
             THEN [s1 EXCEPT
                     !.TempEffBulkAir =
                         [g \in DOMAIN @ |->
                             IF g \in range THEN surfs[g - SurfFirst + 1].TMeanAir ELSE @[g]],
                     !.Surface =
                         [g \in DOMAIN @ |->
                             IF g \in range THEN [@[g] EXCEPT !.TAirRef = AdjacentAirTemp] ELSE @[g]],
                     !.Node[ZoneNodeNum].Temp = ReturnTemp,
                     !.TempTstatAir[ZoneNum] = TstatTemp,
                     !.AirModel[ZoneNum].SimAirModel = TRUE]
             ELSE [s1 EXCEPT
                     !.TempEffBulkAir =
                         [g \in DOMAIN @ |->
                             IF g \in range
                             THEN RAdd(in.TempZoneThermostatSetPoint,
                                       RSub(surfs[g - SurfFirst + 1].TMeanAir, TstatTemp))
                             ELSE @[g]],
                     !.Surface =
                         [g \in DOMAIN @ |->
                             IF g \in range THEN [@[g] EXCEPT !.TAirRef = AdjacentAirTemp] ELSE @[g]],
                     !.Node[ZoneNodeNum].Temp =
                         RAdd(in.TempZoneThermostatSetPoint, RSub(ReturnTemp, TstatTemp)),
                     !.TempTstatAir[ZoneNum] = in.ZT,
                     !.AirModel[ZoneNum].SimAirModel = TRUE]
        ELSE [s1 EXCEPT
                !.TempEffBulkAir = [g \in DOMAIN @ |-> IF g \in range THEN in.MAT ELSE @[g]],
                !.Surface =
                    [g \in DOMAIN @ |->
                        IF g \in range THEN [@[g] EXCEPT !.TAirRef = ZoneMeanAirTemp] ELSE @[g]],
                !.AirModel[ZoneNum].SimAirModel = FALSE]

-----------------------------------------------------------------------------
(* ManageMundtModel                                                         *)

\* faulty variant: the calculation goes ahead whatever the setup reported
SetupAndCalcIgnoringErrors(s, ZoneNum) == CalcMundtModel(SetupMundtModel(s, ZoneNum), ZoneNum)

\* the setup and the calculation, entered when the gate passes
SetupAndCalc(s, ZoneNum) ==
    LET Checked(s1) ==
          IF s1.call.ErrorsFound
          THEN [s1 EXCEPT !.fatal = TRUE,
                          !.msgs = Append(@, Fatal("ManageMundtModel: Errors in setting up Mundt Model",
                                                   ZoneNum))]
          ELSE CalcMundtModel(s1, ZoneNum)
    IN  Checked(SetupMundtModel(s, ZoneNum))

ManageMundtModel(s, ZoneNum, in) ==
    LET Outbound(s5) ==
          IF s5.fatal THEN s5 ELSE SetSurfHBDataForMundtModel(s5, ZoneNum, in)
        Cooling(s3) ==
          IF s3.fatal THEN s3
          ELSE IF GatePasses(s3)
               THEN Outbound(SetupAndCalc([s3 EXCEPT !.call.gate = TRUE], ZoneNum))
               ELSE Outbound(s3)
        Inbound(s1) ==
          IF s1.fatal THEN s1
          ELSE Cooling(GetSurfHBDataForMundtModel(
                           [s1 EXCEPT !.FirstTimeFlag = FALSE,
                                      !.MundtZoneNum = s1.ZoneData[ZoneNum].MundtZoneIndex],
                           ZoneNum, in))
        FirstTime(s0) == Inbound(IF s0.FirstTimeFlag THEN InitMundtModel(s0) ELSE s0)
    IN  FirstTime([s EXCEPT !.call = [NoCall EXCEPT !.ZoneNum = ZoneNum, !.in = in]])

-----------------------------------------------------------------------------
(* What one invocation leaves for its zone                                  *)

ZoneResult(s, ZoneNum) ==
    IF s.fatal THEN [fatal |-> TRUE]
    ELSE LET zd == s.ZoneData[ZoneNum]
             range == zd.SurfFirst..(zd.SurfFirst + zd.NumOfSurfs - 1)
         IN  [fatal |-> FALSE,
              NodeTemp |-> [n \in 1..s.TotNumOfZoneAirNodes[ZoneNum] |->
                               s.LineNode[zd.MundtZoneIndex][n].Temp],
              TMeanAir |-> [n \in 1..zd.NumOfSurfs |->
                               s.MundtAirSurf[zd.MundtZoneIndex][n].TMeanAir],
              TempEffBulkAir |-> [g \in range |-> s.TempEffBulkAir[g]],
              TAirRef |-> [g \in range |-> s.Surface[g].TAirRef],
              ZoneNodeTemp |-> s.Node[s.Zone[ZoneNum].SystemZoneNodeNumber].Temp,
              TempTstatAir |-> s.TempTstatAir[ZoneNum],
              SimAirModel |-> s.AirModel[ZoneNum].SimAirModel]

\* the program with its shared working slots (role bindings, floor set,
\* scalars) as they were before any call, its per-zone tables untouched
Isolated(s) ==
    [s EXCEPT
       !.FloorSurf = [i \in DOMAIN @ |-> DefaultFloorSurf],
       !.FloorSurfSetIDs = [i \in DOMAIN @ |-> 0],
       !.TheseSurfIDs = [i \in DOMAIN @ |-> 0],
       !.RoomNodeIDs = [i \in DOMAIN @ |-> 0],
       !.MundtCeilAirID = 0, !.MundtFootAirID = 0, !.SupplyNodeID = 0, !.TstatNodeID = 0,
       !.ReturnNodeID = 0, !.NumRoomNodes = 0, !.NumFloorSurfs = 0, !.MundtZoneNum = 0,
       !.ZoneHeight = Num(0), !.ZoneFloorArea = Num(0), !.QventCool = Num(0),
       !.ConvIntGain = Num(0), !.SupplyAirTemp = Num(0), !.SupplyAirVolumeRate = Num(0),
       !.ZoneAirDensity = Num(0), !.QsysCoolTot = Num(0)]

-----------------------------------------------------------------------------
Install(r) ==
    /\ Zone' = r.Zone
    /\ Surface' = r.Surface
    /\ AirNode' = r.AirNode
    /\ AirModel' = r.AirModel
    /\ TotNumOfZoneAirNodes' = r.TotNumOfZoneAirNodes
    /\ TempEffBulkAir' = r.TempEffBulkAir
    /\ Node' = r.Node
    /\ TempTstatAir' = r.TempTstatAir
    /\ FirstTimeFlag' = r.FirstTimeFlag
    /\ ZoneData' = r.ZoneData
    /\ LineNode' = r.LineNode
    /\ MundtAirSurf' = r.MundtAirSurf
    /\ FloorSurf' = r.FloorSurf
    /\ FloorSurfSetIDs' = r.FloorSurfSetIDs
    /\ TheseSurfIDs' = r.TheseSurfIDs
    /\ RoomNodeIDs' = r.RoomNodeIDs
    /\ ID1dSurf' = r.ID1dSurf
    /\ MundtCeilAirID' = r.MundtCeilAirID
    /\ MundtFootAirID' = r.MundtFootAirID
    /\ SupplyNodeID' = r.SupplyNodeID
    /\ TstatNodeID' = r.TstatNodeID
    /\ ReturnNodeID' = r.ReturnNodeID
    /\ NumRoomNodes' = r.NumRoomNodes
    /\ NumFloorSurfs' = r.NumFloorSurfs
    /\ MundtZoneNum' = r.MundtZoneNum
    /\ ZoneHeight' = r.ZoneHeight
    /\ ZoneFloorArea' = r.ZoneFloorArea
    /\ QventCool' = r.QventCool
    /\ ConvIntGain' = r.ConvIntGain
    /\ SupplyAirTemp' = r.SupplyAirTemp
    /\ SupplyAirVolumeRate' = r.SupplyAirVolumeRate
    /\ ZoneAirDensity' = r.ZoneAirDensity
    /\ QsysCoolTot' = r.QsysCoolTot
    /\ fatal' = r.fatal
    /\ msgs' = r.msgs
    /\ call' = r.call

Init ==
    \E b \in Buildings :
        /\ Zone = Start(b).Zone
        /\ Surface = Start(b).Surface
        /\ AirNode = Start(b).AirNode
        /\ AirModel = Start(b).AirModel
        /\ TotNumOfZoneAirNodes = Start(b).TotNumOfZoneAirNodes
        /\ TempEffBulkAir = Start(b).TempEffBulkAir
        /\ Node = Start(b).Node
        /\ TempTstatAir = Start(b).TempTstatAir
        /\ FirstTimeFlag = Start(b).FirstTimeFlag
        /\ ZoneData = Start(b).ZoneData
        /\ LineNode = Start(b).LineNode
        /\ MundtAirSurf = Start(b).MundtAirSurf
        /\ FloorSurf = Start(b).FloorSurf
        /\ FloorSurfSetIDs = Start(b).FloorSurfSetIDs
        /\ TheseSurfIDs = Start(b).TheseSurfIDs
        /\ RoomNodeIDs = Start(b).RoomNodeIDs
        /\ ID1dSurf = Start(b).ID1dSurf
        /\ MundtCeilAirID = Start(b).MundtCeilAirID
        /\ MundtFootAirID = Start(b).MundtFootAirID
        /\ SupplyNodeID = Start(b).SupplyNodeID
        /\ TstatNodeID = Start(b).TstatNodeID
        /\ ReturnNodeID = Start(b).ReturnNodeID
        /\ NumRoomNodes = Start(b).NumRoomNodes
        /\ NumFloorSurfs = Start(b).NumFloorSurfs
        /\ MundtZoneNum = Start(b).MundtZoneNum
        /\ ZoneHeight = Start(b).ZoneHeight
        /\ ZoneFloorArea = Start(b).ZoneFloorArea
        /\ QventCool = Start(b).QventCool
        /\ ConvIntGain = Start(b).ConvIntGain
        /\ SupplyAirTemp = Start(b).SupplyAirTemp
        /\ SupplyAirVolumeRate = Start(b).SupplyAirVolumeRate
        /\ ZoneAirDensity = Start(b).ZoneAirDensity
        /\ QsysCoolTot = Start(b).QsysCoolTot
        /\ fatal = Start(b).fatal
        /\ msgs = Start(b).msgs
        /\ call = Start(b).call

\* the program is in state r
Holds(r) ==
    /\ Zone = r.Zone
    /\ Surface = r.Surface
    /\ AirNode = r.AirNode
    /\ AirModel = r.AirModel
    /\ TotNumOfZoneAirNodes = r.TotNumOfZoneAirNodes
    /\ TempEffBulkAir = r.TempEffBulkAir
    /\ Node = r.Node
    /\ TempTstatAir = r.TempTstatAir
    /\ FirstTimeFlag = r.FirstTimeFlag
    /\ ZoneData = r.ZoneData
    /\ LineNode = r.LineNode
    /\ MundtAirSurf = r.MundtAirSurf
    /\ FloorSurf = r.FloorSurf
    /\ FloorSurfSetIDs = r.FloorSurfSetIDs
    /\ TheseSurfIDs = r.TheseSurfIDs
    /\ RoomNodeIDs = r.RoomNodeIDs
    /\ ID1dSurf = r.ID1dSurf
    /\ MundtCeilAirID = r.MundtCeilAirID
    /\ MundtFootAirID = r.MundtFootAirID
    /\ SupplyNodeID = r.SupplyNodeID
    /\ TstatNodeID = r.TstatNodeID
    /\ ReturnNodeID = r.ReturnNodeID
    /\ NumRoomNodes = r.NumRoomNodes
    /\ NumFloorSurfs = r.NumFloorSurfs
    /\ MundtZoneNum = r.MundtZoneNum
    /\ ZoneHeight = r.ZoneHeight
    /\ ZoneFloorArea = r.ZoneFloorArea
    /\ QventCool = r.QventCool
    /\ ConvIntGain = r.ConvIntGain
    /\ SupplyAirTemp = r.SupplyAirTemp
    /\ SupplyAirVolumeRate = r.SupplyAirVolumeRate
    /\ ZoneAirDensity = r.ZoneAirDensity
    /\ QsysCoolTot = r.QsysCoolTot
    /\ fatal = r.fatal
    /\ msgs = r.msgs
    /\ call = r.call

\* the host calls the manager for a zone that uses the Mundt model, unless a
\* fatal error has ended the run
Manage ==
    /\ ~fatal
    /\ \E ZoneNum \in MundtZones(State), in \in HostInputs :
          \E r \in {ManageMundtModel(State, ZoneNum, in)} : Install(r)

Next == Manage

Spec == Init /\ [][Next]_vars

-----------------------------------------------------------------------------
(* CalcMundtModel on its own: the routine entered with any cooling load,     *)
(* zero and negative ones included, which ManageMundtModel's test keeps out  *)

\* cooling loads [W] at the entry of CalcMundtModel
CoolingLoads == {Num(-5), Num(0), Num(12)}

\* the host values the routine is entered with: the system off, or running
CalcInputs == {in \in HostInputs : in.MassFlowRate \in {Num(0), R(1, 1005)}}

\* zone ZoneNum of building b set up for a solve, the cooling load being q
CalcEntry(b, ZoneNum, in, q) ==
    LET Setup(s3) ==
          IF s3.fatal THEN s3
          ELSE SetupMundtModel([s3 EXCEPT !.QsysCoolTot = q, !.call.gate = TRUE], ZoneNum)
        Inbound(s1) ==
          IF s1.fatal THEN s1
          ELSE Setup(GetSurfHBDataForMundtModel(
                         [s1 EXCEPT !.FirstTimeFlag = FALSE,
                                    !.MundtZoneNum = s1.ZoneData[ZoneNum].MundtZoneIndex],
                         ZoneNum, in))
    IN  Inbound(InitMundtModel([Start(b) EXCEPT
                                  !.call = [NoCall EXCEPT !.ZoneNum = ZoneNum, !.in = in]]))

InitCalc ==
    \E b \in Buildings, ZoneNum \in {1, 3}, in \in CalcInputs, q \in CoolingLoads :
        \E r \in {CalcEntry(b, ZoneNum, in, q)} :
            /\ ~r.fatal
            /\ ~r.call.ErrorsFound
            /\ Holds(r)

CalcAlone ==
    /\ ~fatal
    /\ call.ranSetup
    /\ ~call.ranCalc
    /\ \E r \in {CalcMundtModel(State, call.ZoneNum)} : Install(r)

NextCalc == CalcAlone

SpecCalc == InitCalc /\ [][NextCalc]_vars

-----------------------------------------------------------------------------
(* Vocabulary of the properties                                             *)

\* an invocation has been made, and its inbound step completed
Invoked == call.ZoneNum # 0

InboundDone == Invoked /\ call.ranGet

\* the gate as the properties state it: both values strictly above 0.0001
FlowAndLoadAbove ==
    /\ SupplyAirVolumeRate[1] * 10000 > SupplyAirVolumeRate[2]
    /\ QsysCoolTot[1] * 10000 > QsysCoolTot[2]

NodeTemps(ln) == [m \in DOMAIN ln |-> [n \in DOMAIN ln[m] |-> ln[m][n].Temp]]

TMeanAirs(ms) == [m \in DOMAIN ms |-> [n \in DOMAIN ms[m] |-> ms[m][n].TMeanAir]]

\* this step wrote no air-node temperature and no surface TMeanAir (the first
\* call allocates the arrays, at 25.0)
SolverWroteNothing ==
    IF FirstTimeFlag
    THEN /\ \A m \in DOMAIN LineNode' : \A n \in DOMAIN LineNode'[m] : LineNode'[m][n].Temp = Num(25)
         /\ \A m \in DOMAIN MundtAirSurf' : \A n \in DOMAIN MundtAirSurf'[m] :
                MundtAirSurf'[m][n].TMeanAir = Num(25)
    ELSE /\ NodeTemps(LineNode') = NodeTemps(LineNode)
         /\ TMeanAirs(MundtAirSurf') = TMeanAirs(MundtAirSurf)

\* the global surface numbers of a zone
ZoneSurfaces(z) == Zone[z].SurfaceFirst..Zone[z].SurfaceLast

\* the classes of the air nodes the called zone was given
ZoneClasses(z) ==
    {LineNode[ZoneData[z].MundtZoneIndex][n].ClassType : n \in 1..TotNumOfZoneAirNodes[z]}

-----------------------------------------------------------------------------
\* C1: in every invocation whose inbound step completed, SetupMundtModel ran
\* exactly when SupplyAirVolumeRate > 0.0001 and QsysCoolTot > 0.0001 (both
\* strictly), CalcMundtModel ran only then, and in every invocation that was not
\* ended by a fatal error CalcMundtModel ran exactly then; at or below 0.0001
\* neither ran.
C1_GateDecidesSolver ==
    InboundDone =>
        /\ call.ranSetup <=> FlowAndLoadAbove
        /\ call.ranCalc => FlowAndLoadAbove
        /\ ~fatal => (call.ranCalc <=> FlowAndLoadAbove)

\* C1 witness: the load is exactly 0.0001 with the flow above it, and the
\* solver did not run
C1_Witness ==
    /\ InboundDone
    /\ QsysCoolTot = R(1, 10000)
    /\ RGt(SupplyAirVolumeRate, R(1, 10000))
    /\ ~call.ranSetup /\ ~call.ranCalc /\ call.ranSet

\* C2: in every invocation where SupplyAirVolumeRate <= 0.0001 or QsysCoolTot
\* <= 0.0001 after the inbound step, no LineNode Temp and no MundtAirSurf
\* TMeanAir of any zone changes, and at its end every surface of the zone has
\* TempEffBulkAir = MAT(ZoneNum) and TAirRef = ZoneMeanAirTemp, and
\* AirModel(ZoneNum).SimAirModel is false.
C2_UnsolvedIsWellMixed ==
    [][ (call'.ranGet /\ ~FlowAndLoadAbove') =>
          /\ SolverWroteNothing
          /\ \A g \in ZoneSurfaces(call'.ZoneNum) :
                /\ TempEffBulkAir'[g] = call'.in.MAT
                /\ Surface'[g].TAirRef = "ZoneMeanAirTemp"
          /\ AirModel'[call'.ZoneNum].SimAirModel = FALSE ]_vars

\* C2 witness: a zone solved in an earlier call (its node temperatures are no
\* longer the defaults) is called with the gate closed
C2_Witness ==
    /\ InboundDone /\ ~FlowAndLoadAbove /\ call.ranSet
    /\ \E n \in 1..TotNumOfZoneAirNodes[call.ZoneNum] : LineNode[MundtZoneNum][n].Temp # Num(25)
    /\ \A g \in ZoneSurfaces(call.ZoneNum) : TempEffBulkAir[g] = call.in.MAT

\* C3: whenever CalcMundtModel ran with ReturnHeight # FloorHeight, the Slope it
\* used for the Ceiling, Control and Room node temperatures satisfies
\* 0.001 <= Slope <= 5.0.
C3_SlopeWithinBounds ==
    (Invoked /\ call.ranCalc /\ call.calc.dH # Num(0)) =>
        /\ RLe(R(1, 1000), call.calc.Slope)
        /\ RLe(call.calc.Slope, Num(5))
        /\ call.calc.TAirCeil =
               RSub(call.calc.TLeaving,
                    RMul(call.calc.Slope, RSub(call.calc.ReturnHeight, call.calc.CeilHeight)))

\* C3 witness: a solve with the Return node below the Floor node and a negative
\* raw gradient
C3_Witness ==
    /\ Invoked /\ call.ranCalc
    /\ RLt(call.calc.dH, Num(0))
    /\ RLt(call.calc.Slope0, Num(0))
    /\ call.calc.Slope = R(1, 1000)

\* the slope and temperatures of the last solve
SolveRan == Invoked /\ call.ranCalc

FloorOnLine ==
    call.calc.TAirFoot =
        RSub(call.calc.TLeaving,
             RMul(call.calc.Slope, RSub(call.calc.ReturnHeight, call.calc.FloorHeight)))

\* C4 as stated: after every solve, whichever clamp was applied, the Floor node
\* temperature lies on the gradient line, TAirFoot = TLeaving - Slope *
\* (ReturnHeight - FloorHeight) for the final Slope.
C4_FloorOnLineAlways == SolveRan => FloorOnLine

\* C4 amended: after every solve the Floor node temperature lies on the gradient
\* line of the final Slope when the unclamped slope is at least MinSlope
\* (no clamp, or the clamp to MaxSlope); otherwise it is TLeaving itself.
C4_FloorOnLineUnlessBelowMin ==
    SolveRan =>
        IF RGe(call.calc.Slope0, R(1, 1000)) THEN FloorOnLine
        ELSE call.calc.TAirFoot = call.calc.TLeaving

\* C4 witness: a solve whose slope was cut to MaxSlope and whose floor
\* temperature was recomputed
C4_Witness ==
    /\ SolveRan
    /\ RGt(call.calc.Slope0, Num(5))
    /\ call.calc.Slope = Num(5)
    /\ call.calc.TAirFoot # call.calc.TAirFoot0
    /\ FloorOnLine

NodesOfClass(z, class) ==
    {n \in 1..TotNumOfZoneAirNodes[z] : LineNode[ZoneData[z].MundtZoneIndex][n].ClassType = class}

NodeHeight(z, n) == LineNode[ZoneData[z].MundtZoneIndex][n].Height

\* the called zone has one Room node, and it is no lower than the zone's Floor
\* node and no higher than its Ceiling node
SingleRoomBetween ==
    LET z == call.ZoneNum
    IN  /\ Cardinality(NodesOfClass(z, 4)) = 1
        /\ NodesOfClass(z, 1) # {}
        /\ NodesOfClass(z, 3) # {}
        /\ \A r \in NodesOfClass(z, 4) :
              /\ \A f \in NodesOfClass(z, 1) : RLe(NodeHeight(z, f), NodeHeight(z, r))
              /\ \A c \in NodesOfClass(z, 3) : RLe(NodeHeight(z, r), NodeHeight(z, c))

RoomBetweenFloorAndCeiling ==
    LET TF == call.calc.TAirFoot
        TC == call.calc.TAirCeil
        TR == call.calc.TRoom[1]
    IN  \/ RLe(TF, TR) /\ RLe(TR, TC)
        \/ RLe(TC, TR) /\ RLe(TR, TF)

\* C5 as stated: after every solve in a zone with a single Room node between the
\* Floor and the Ceiling node, min(TFloor, TCeil) <= TRoom <= max(TFloor, TCeil).
C5_RoomBoundedAlways == (SolveRan /\ SingleRoomBetween) => RoomBetweenFloorAndCeiling

\* C5 amended: the same, for the solves whose unclamped slope is at least
\* MinSlope (the slope was not raised to MinSlope).
C5_RoomBoundedUnlessBelowMin ==
    (SolveRan /\ SingleRoomBetween /\ RGe(call.calc.Slope0, R(1, 1000))) =>
        RoomBetweenFloorAndCeiling

\* C5 witness: such a solve, the Room temperature strictly between the two
C5_Witness ==
    /\ SolveRan /\ SingleRoomBetween /\ RGe(call.calc.Slope0, R(1, 1000))
    /\ RLt(call.calc.TAirFoot, call.calc.TRoom[1])
    /\ RLt(call.calc.TRoom[1], call.calc.TAirCeil)

Reported(sev, text, z) ==
    \E i \in DOMAIN msgs : msgs[i] = [sev |-> sev, text |-> text, zone |-> z]

\* C6 as stated: whenever the gate passes for a zone without a Floor-class node,
\* SetupMundtModel reports the missing FloorAirNode, sets ErrorsFound, and the
\* run aborts before CalcMundtModel runs for that zone, whatever zones were
\* processed in earlier calls.
C6_MissingFloorAlwaysFatal ==
    (InboundDone /\ FlowAndLoadAbove /\ NodesOfClass(call.ZoneNum, 1) = {}) =>
        /\ Reported("Severe", "SetupMundtModel: Mundt model has no FloorAirNode", call.ZoneNum)
        /\ call.ErrorsFound
        /\ fatal
        /\ ~call.ranCalc

\* C7: whenever the gate passes for a zone with an air node whose ClassType is
\* none of Inlet, Floor, Control, Ceiling, MundtRoom, Return (the default -1
\* included), SetupMundtModel sets ErrorsFound and ManageMundtModel raises a
\* fatal error before CalcMundtModel runs: no LineNode Temp and no MundtAirSurf
\* TMeanAir is written in that invocation.
C7_NonStandardNodeIsFatal ==
    [][ (call'.ranGet /\ FlowAndLoadAbove'
          /\ ~((ZoneClasses(call.ZoneNum))' \subseteq {0, 1, 2, 3, 4, 10})) =>
          /\ call'.ranSetup /\ call'.ErrorsFound
          /\ fatal'
          /\ msgs'[Len(msgs')].sev = "Fatal"
          /\ ~call'.ranCalc /\ ~call'.ranSet
          /\ SolverWroteNothing ]_vars

\* C7 witness: the gate passed for a zone holding a node of class -1, after
\* another zone had been solved, and the run has ended
C7_Witness ==
    /\ InboundDone /\ FlowAndLoadAbove
    /\ -1 \in ZoneClasses(call.ZoneNum)
    /\ fatal /\ call.ErrorsFound /\ ~call.ranCalc
    /\ \E m \in DOMAIN LineNode : \E n \in DOMAIN LineNode[m] : LineNode[m][n].Temp # Num(25)

\* a Mundt zone that declares more air nodes than the list defines for it
Offending(z) ==
    /\ AirModel[z].AirModelType = "Mundt"
    /\ Cardinality({k \in DOMAIN AirNode : SameString(AirNode[k].ZoneName, Zone[z].Name)})
          < TotNumOfZoneAirNodes[z]

\* C8 as stated: when a declared air node of a Mundt zone has no matching
\* definition, InitMundtModel still scans every Mundt zone, reports each
\* offending zone, and raises exactly one fatal error, after the scan, wherever
\* the offending zone's definitions stand in the air-node list.
C8_InitAccumulatesErrors ==
    (Invoked /\ call.ranInit /\ \E z \in DOMAIN Zone : Offending(z)) =>
        /\ call.initScanned = {z \in DOMAIN Zone : AirModel[z].AirModelType = RoomAirModel_Mundt}
        /\ \A z \in DOMAIN Zone :
              Offending(z) => Reported("Severe", "Air Node in Zone is not found", z)
        /\ Cardinality({i \in DOMAIN msgs : msgs[i].sev = "Fatal"}) = 1
        /\ msgs[Len(msgs)].text = "InitMundtModel: Preceding condition(s) cause termination"
        /\ fatal

\* C9 as stated: in every invocation in which the solver runs, each surface's
\* Temp, Hc and TMeanAir is written exactly once before the outbound step reads
\* it (no TMeanAir read is a leftover or the 25.0 default, none is written twice).
C9_FieldsWrittenOnce ==
    (SolveRan /\ call.ranSet) =>
        \A SurfNum \in 1..ZoneData[call.ZoneNum].NumOfSurfs :
            /\ call.wrTemp[SurfNum] = 1
            /\ call.wrHc[SurfNum] = 1
            /\ call.wrTMeanAir[SurfNum] = 1

\* C10 as stated: what an invocation leaves for its zone (node temperatures,
\* surface TMeanAir, the outbound values) is what the same invocation leaves
\* when the shared working slots hold nothing from the zones processed before.
C10_ResultIndependentOfOtherZones ==
    [][ (ZoneResult(State, call.ZoneNum))' =
            ZoneResult(ManageMundtModel(Isolated(State), call'.ZoneNum, call'.in), call'.ZoneNum)
      ]_vars

\* the surface mask of the air node a role ID is bound to, in the zone solved
BoundMask(NodeID) ==
    IF NodeID \in DOMAIN LineNode[MundtZoneNum]
    THEN LineNode[MundtZoneNum][NodeID].SurfMask ELSE {}

\* the Room nodes (by position in RoomNodeIDs) whose mask holds the surface
RoomsOf(SurfNum) == {i \in 1..NumRoomNodes : SurfNum \in BoundMask(RoomNodeIDs[i])}

SolvedSurfaces == DOMAIN MundtAirSurf[MundtZoneNum]

SurfTMeanAir(SurfNum) == MundtAirSurf[MundtZoneNum][SurfNum].TMeanAir

SolvedAndPushed == SolveRan /\ call.ranSet

\* C12: in every invocation where the solve ran and the zone couples directly,
\* at the end each surface of the zone has TempEffBulkAir equal to its TMeanAir
\* and TAirRef = AdjacentAirTemp, the zone node's Temp is the Return node
\* temperature of this solve (TLeaving), TempTstatAir(ZoneNum) is the Control
\* node temperature of this solve, and SimAirModel is true.
C12_DirectCouplingOutbound ==
    (SolvedAndPushed /\ AirModel[call.ZoneNum].TempCoupleScheme = "Direct") =>
        /\ \A SurfNum \in 1..ZoneData[call.ZoneNum].NumOfSurfs :
              /\ TempEffBulkAir[ZoneData[call.ZoneNum].SurfFirst + SurfNum - 1]
                    = SurfTMeanAir(SurfNum)
              /\ Surface[ZoneData[call.ZoneNum].SurfFirst + SurfNum - 1].TAirRef
                    = "AdjacentAirTemp"
        /\ Node[Zone[call.ZoneNum].SystemZoneNodeNumber].Temp = call.calc.TLeaving
        /\ TempTstatAir[call.ZoneNum] = call.calc.TControlPoint
        /\ AirModel[call.ZoneNum].SimAirModel

\* C12 witness: a directly coupled zone solved, its surfaces holding different
\* solved temperatures, none of them the host's mean air temperature
C12_Witness ==
    /\ SolvedAndPushed
    /\ AirModel[call.ZoneNum].TempCoupleScheme = "Direct"
    /\ TempEffBulkAir[ZoneData[call.ZoneNum].SurfFirst] = call.calc.TAirFoot
    /\ TempEffBulkAir[ZoneData[call.ZoneNum].SurfFirst + 1] = call.calc.TAirCeil
    /\ call.calc.TAirFoot # call.calc.TAirCeil
    /\ call.calc.TAirFoot # call.in.MAT
    /\ TempTstatAir[call.ZoneNum] # call.calc.TLeaving

\* the working scalars of the module
WorkingScalars ==
    <<ZoneHeight, ZoneFloorArea, ZoneAirDensity, SupplyAirTemp, SupplyAirVolumeRate,
      QsysCoolTot, ConvIntGain, QventCool>>

\* this step's InitMundtModel ended the run
InitFailedNow ==
    /\ call'.ranInit
    /\ \E i \in DOMAIN msgs' :
          msgs'[i].text \in {"An array bound exceeded",
                             "InitMundtModel: Preceding condition(s) cause termination"}

\* this step copied no host surface value into MundtAirSurf (on the first call
\* the table is created, holding the defaults 25.0 and 0.0)
InboundCopiedNothing ==
    IF FirstTimeFlag
    THEN \A m \in DOMAIN MundtAirSurf' : \A n \in DOMAIN MundtAirSurf'[m] :
            /\ MundtAirSurf'[m][n].Temp = Num(25)
            /\ MundtAirSurf'[m][n].Hc = Num(0)
            /\ MundtAirSurf'[m][n].TMeanAir = Num(25)
    ELSE MundtAirSurf' = MundtAirSurf

\* C13: when ManageMundtModel is invoked for a zone that is not controlled, the
\* inbound step raises a fatal error before it changes any working scalar or
\* any MundtAirSurf entry, and neither the solver nor the outbound step runs.
C13_UncontrolledZoneIsFatal ==
    [][ (call'.ZoneNum # 0 /\ ~Zone[call'.ZoneNum].IsControlled /\ ~InitFailedNow) =>
          /\ fatal'
          /\ msgs'[Len(msgs')] =
                [sev |-> "Fatal", text |-> "Zones must be controlled for Mundt air model",
                 zone |-> call'.ZoneNum]
          /\ WorkingScalars' = WorkingScalars
          /\ InboundCopiedNothing
          /\ ~call'.ranGet /\ ~call'.ranSetup /\ ~call'.ranCalc /\ ~call'.ranSet
          /\ TempEffBulkAir' = TempEffBulkAir
          /\ Surface' = Surface
          /\ AirModel' = AirModel ]_vars

\* C13 witness: the run ended on a call for an uncontrolled zone, the working
\* scalars still those of the zone solved before
C13_Witness ==
    /\ Invoked
    /\ ~Zone[call.ZoneNum].IsControlled
    /\ fatal
    /\ ~call.ranInit
    /\ ZoneHeight # Num(0)
    /\ \E z \in DOMAIN AirModel : AirModel[z].SimAirModel

\* C14: whenever CalcMundtModel runs with QsysCoolTot <= 0, the Return node
\* temperature it writes (TLeaving) is SupplyAirTemp exactly; otherwise it is
\* SupplyAirTemp + QsysCoolTot / (ZoneAirDensity * CpAir * SupplyAirVolumeRate).
C14_LeavingTemperature ==
    SolveRan =>
        /\ LineNode[MundtZoneNum][ReturnNodeID].Temp = call.calc.TLeaving
        /\ IF QsysCoolTot[1] <= 0
           THEN call.calc.TLeaving = SupplyAirTemp
           ELSE call.calc.TLeaving =
                    RAdd(SupplyAirTemp,
                         RDiv(QsysCoolTot,
                              RMul(RMul(ZoneAirDensity, Num(1005)), SupplyAirVolumeRate)))

\* C14 witness: a solve entered with a negative cooling load and a running
\* supply, the Return node at the supply temperature
C14_Witness ==
    /\ SolveRan
    /\ QsysCoolTot[1] < 0
    /\ SupplyAirVolumeRate[1] > 0
    /\ call.calc.TLeaving = SupplyAirTemp
    /\ LineNode[MundtZoneNum][ReturnNodeID].Temp = SupplyAirTemp

\* the topology data InitMundtModel builds
Topology ==
    <<ZoneData,
      [m \in DOMAIN LineNode |->
          [n \in DOMAIN LineNode[m] |->
              <<LineNode[m][n].ClassType, LineNode[m][n].Height,
                LineNode[m][n].AirNodeName, LineNode[m][n].SurfMask>>]],
      [m \in DOMAIN MundtAirSurf |->
          [n \in DOMAIN MundtAirSurf[m] |-> MundtAirSurf[m][n].Area]]>>

\* C15: InitMundtModel executes in the first ManageMundtModel call and in no
\* later one, and no later call changes a zone's topology data: ZoneData, each
\* LineNode's ClassType, Height, AirNodeName and SurfMask, each MundtAirSurf Area.
C15_TopologyBuiltOnce ==
    [][ /\ call'.ranInit <=> FirstTimeFlag
        /\ ~FirstTimeFlag => (~FirstTimeFlag' /\ Topology' = Topology) ]_vars

\* C15 witness: a later call has solved a zone, and node temperatures of both
\* Mundt zones have moved off their initial 25.0
C15_Witness ==
    /\ SolveRan
    /\ ~call.ranInit
    /\ ~FirstTimeFlag
    /\ \A m \in DOMAIN LineNode : \E n \in DOMAIN LineNode[m] : LineNode[m][n].Temp # Num(25)

\* the zones the host marks as using the Mundt model
UsesMundt == {z \in DOMAIN AirModel : AirModel[z].AirModelType = RoomAirModel_Mundt}

\* the air-node definitions the host's list gives a zone, of one class
DefsOf(z, class) ==
    {k \in DOMAIN AirNode : /\ SameString(AirNode[k].ZoneName, Zone[z].Name)
                            /\ AirNode[k].ClassType = class}

\* the largest member of a nonempty set of naturals is n
IsMaxOf(n, S) == n \in S /\ \A x \in S : x <= n

\* C16: after a successful InitMundtModel over N zones of which M use the
\* Mundt model, MundtAirSurf is M x (max surface count over the Mundt zones),
\* LineNode is M x (max air-node count over the Mundt zones), RoomNodeIDs has the
\* max Room-node count over the Mundt zones as its length, FloorSurf and
\* FloorSurfSetIDs the max floor-mask surface count over the Mundt zones; the
\* other zones contribute to none of these.
C16_ArraysSizedFromMundtZones ==
    (Invoked /\ ~FirstTimeFlag) =>
        /\ Len(MundtAirSurf) = Cardinality(UsesMundt)
        /\ Len(LineNode) = Cardinality(UsesMundt)
        /\ \A m \in DOMAIN MundtAirSurf :
              IsMaxOf(Len(MundtAirSurf[m]),
                      {Zone[z].SurfaceLast - Zone[z].SurfaceFirst + 1 : z \in UsesMundt})
        /\ \A m \in DOMAIN LineNode :
              IsMaxOf(Len(LineNode[m]), {TotNumOfZoneAirNodes[z] : z \in UsesMundt})
        /\ IsMaxOf(Len(RoomNodeIDs), {Cardinality(DefsOf(z, MundtRoomAirNode)) : z \in UsesMundt})
        /\ IsMaxOf(Len(FloorSurf),
                   {Cardinality(UNION {AirNode[k].SurfMask : k \in DefsOf(z, FloorAirNode)}) :
                       z \in UsesMundt})
        /\ (call.ranInit /\ ~call.ranSetup) => Len(FloorSurfSetIDs) = Len(FloorSurf)

\* C16 witness: the initialisation succeeded in a building whose zone outside
\* the model has more surfaces, air nodes, Room nodes and floor surfaces than
\* any zone inside it
C16_Witness ==
    /\ Invoked /\ ~FirstTimeFlag /\ call.ranInit /\ ~call.ranSetup
    /\ \E z \in DOMAIN Zone \ UsesMundt :
          /\ Zone[z].SurfaceLast - Zone[z].SurfaceFirst + 1 > Len(MundtAirSurf[1])
          /\ TotNumOfZoneAirNodes[z] > Len(LineNode[1])
          /\ Cardinality(DefsOf(z, MundtRoomAirNode)) > Len(RoomNodeIDs)
          /\ Cardinality(UNION {AirNode[k].SurfMask : k \in DefsOf(z, FloorAirNode)}) > Len(FloorSurf)
    /\ Cardinality(UsesMundt) < Cardinality(DOMAIN Zone)

\* the LineNode entries of zone z that InitMundtModel visited, and those it
\* bound to a definition of the air-node list
Visited(z) ==
    {n \in 1..TotNumOfZoneAirNodes[z] :
        LineNode[ZoneData[z].MundtZoneIndex][n].AirNodeBeginNum # 0}

Bound(z) ==
    {n \in 1..TotNumOfZoneAirNodes[z] : LineNode[ZoneData[z].MundtZoneIndex][n].AirNodeNum # 0}

BoundTo(z, n) == LineNode[ZoneData[z].MundtZoneIndex][n].AirNodeNum

ScanFrom(z, n) == LineNode[ZoneData[z].MundtZoneIndex][n].AirNodeBeginNum

\* C17: in InitMundtModel, within one zone the definitions bound to the
\* LineNode entries 1..k lie at strictly increasing positions of the air-node
\* list; the cursor AirNodeBeginNum never moves back while the zone is scanned
\* and each bound definition lies at or after it; every bound definition's
\* ZoneName matches the zone; no definition is bound to two LineNode entries of
\* the same zone.
C17_BindingsInListOrder ==
    \A z \in UsesMundt :
        (z \in DOMAIN ZoneData /\ ZoneData[z].MundtZoneIndex \in DOMAIN LineNode) =>
            /\ \A i, j \in Bound(z) : i < j => BoundTo(z, i) < BoundTo(z, j)
            /\ \A i, j \in Visited(z) : i < j => ScanFrom(z, i) <= ScanFrom(z, j)
            /\ \A n \in Bound(z) :
                  /\ n \in Visited(z)
                  /\ ScanFrom(z, n) <= BoundTo(z, n)
                  /\ n + 1 \in Visited(z) => ScanFrom(z, n + 1) = BoundTo(z, n) + 1
                  /\ BoundTo(z, n) \in DOMAIN AirNode
                  /\ SameString(AirNode[BoundTo(z, n)].ZoneName, Zone[z].Name)
            /\ \A i, j \in Bound(z) : BoundTo(z, i) = BoundTo(z, j) => i = j

\* C17 witness: InitMundtModel bound at least three definitions to a zone whose
\* block does not start the air-node list, so that the scan skipped other
\* zones' definitions
C17_Witness ==
    /\ Invoked /\ call.ranInit
    /\ \E z \in UsesMundt :
          /\ z \in DOMAIN ZoneData /\ ZoneData[z].MundtZoneIndex \in DOMAIN LineNode
          /\ Cardinality(Bound(z)) >= 3
          /\ \A n \in Bound(z) : BoundTo(z, n) > n
          /\ \E k \in DOMAIN AirNode : ~SameString(AirNode[k].ZoneName, Zone[z].Name)

\* node ID id names a LineNode of zone z whose class is the given role
IsRoleNode(z, id, class) ==
    /\ id \in 1..TotNumOfZoneAirNodes[z]
    /\ LineNode[ZoneData[z].MundtZoneIndex][id].ClassType = class

\* C18 as stated: whenever CalcMundtModel executes for a zone, after any
\* sequence of earlier calls, each of SupplyNodeID, ReturnNodeID,
\* MundtCeilAirID, MundtFootAirID and TstatNodeID is an index in
\* 1..TotNumOfZoneAirNodes(zone) of a LineNode of that zone whose ClassType is
\* the corresponding role, so that the height difference and the node writes of
\* the solve concern that zone's own nodes.
C18_RoleIDsAreZoneNodes ==
    SolveRan =>
        /\ IsRoleNode(call.ZoneNum, SupplyNodeID, InletAirNode)
        /\ IsRoleNode(call.ZoneNum, ReturnNodeID, ReturnAirNode)
        /\ IsRoleNode(call.ZoneNum, MundtCeilAirID, CeilingAirNode)
        /\ IsRoleNode(call.ZoneNum, MundtFootAirID, FloorAirNode)
        /\ IsRoleNode(call.ZoneNum, TstatNodeID, ControlAirNode)

====
